---- MODULE Spec2Model ----
(***************************************************************************)
(* Model of the CSV analysis engine: the loader's row loop and column      *)
(* classification (src/src/data_loader.py), the DataAggregator operations  *)
(* (src/src/data_aggregator.py) and the DataAnalyzer operations            *)
(* (src/src/data_analyzer.py).                                             *)
(*                                                                         *)
(* Cells are the raw strings csv.DictReader yields; None (the restval of a *)
(* short row) is the reserved cell NoneCell.  float() is the table         *)
(* FloatTable.  Numbers are exact rationals <<numerator, denominator>> in  *)
(* lowest terms, so 3.0 == 3 holds as it does in Python; binary rounding,  *)
(* nan and inf are outside the modelled cell universe.                     *)
(* A Python dict is a sequence of <<key, value>> pairs in insertion order. *)
(***************************************************************************)
EXTENDS Integers, Sequences, FiniteSets, TLC

VARIABLES headers, data, numeric_cols, categorical_cols, components, pc, last

vars == <<headers, data, numeric_cols, categorical_cols, components, pc, last>>

(***************************************************************************)
(* Bounds of the model.                                                    *)
(***************************************************************************)
MaxRows == 2
MaxColumnRows == 4
MaxPairRows == 3
MaxCategoryRows == 4
MaxFilterRows == 3
MaxFileRows == 3

(***************************************************************************)
(* Python floats are IEEE 754 binary64.  A float is sign * man * 2^exp     *)
(* with man a natural number of at most 53 bits, kept as a sequence of     *)
(* limbs, least significant first; every operation computes the exact      *)
(* result and rounds it to nearest, ties to even.                          *)
(***************************************************************************)
LimbBits == 14
Base == 2 ^ LimbBits
MantissaBits == 53

RECURSIVE NatNorm(_)
NatNorm(a) ==
    IF a = <<>> THEN a
    ELSE IF a[Len(a)] = 0 THEN NatNorm(SubSeq(a, 1, Len(a) - 1))
    ELSE a

RECURSIVE NatFromInt(_)
NatFromInt(n) == IF n = 0 THEN <<>> ELSE <<n % Base>> \o NatFromInt(n \div Base)

RECURSIVE NatAddCarry(_, _, _)
NatAddCarry(a, b, carry) ==
    IF a = <<>> /\ b = <<>> THEN (IF carry = 0 THEN <<>> ELSE <<carry>>)
    ELSE LET x == IF a = <<>> THEN 0 ELSE Head(a)
             y == IF b = <<>> THEN 0 ELSE Head(b)
             s == x + y + carry
         IN  <<s % Base>> \o NatAddCarry(IF a = <<>> THEN a ELSE Tail(a),
                                         IF b = <<>> THEN b ELSE Tail(b), s \div Base)

NatAdd(a, b) == NatAddCarry(a, b, 0)

\* a - b for a >= b, before the leading zero limbs are dropped.
RECURSIVE NatSubBorrow(_, _, _)
NatSubBorrow(a, b, borrow) ==
    IF a = <<>> THEN <<>>
    ELSE LET y == IF b = <<>> THEN 0 ELSE Head(b)
             d == Head(a) - y - borrow
         IN  <<IF d < 0 THEN d + Base ELSE d>>
               \o NatSubBorrow(Tail(a), IF b = <<>> THEN b ELSE Tail(b),
                               IF d < 0 THEN 1 ELSE 0)

NatSub(a, b) == NatNorm(NatSubBorrow(a, b, 0))

\* -1, 0 or 1 as a < b, a = b or a > b.
RECURSIVE NatCmp(_, _)
NatCmp(a, b) ==
    IF Len(a) # Len(b) THEN (IF Len(a) < Len(b) THEN -1 ELSE 1)
    ELSE IF a = <<>> THEN 0
    ELSE IF a[Len(a)] # b[Len(b)] THEN (IF a[Len(a)] < b[Len(b)] THEN -1 ELSE 1)
    ELSE NatCmp(SubSeq(a, 1, Len(a) - 1), SubSeq(b, 1, Len(b) - 1))

\* a * m + carry for one limb m.
RECURSIVE NatMulLimb(_, _, _)
NatMulLimb(a, m, carry) ==
    IF a = <<>> THEN (IF carry = 0 THEN <<>> ELSE <<carry>>)
    ELSE LET s == Head(a) * m + carry
         IN  <<s % Base>> \o NatMulLimb(Tail(a), m, s \div Base)

RECURSIVE NatMul(_, _)
NatMul(a, b) ==
    IF a = <<>> \/ b = <<>> THEN <<>>
    ELSE NatNorm(NatAdd(NatMulLimb(a, Head(b), 0), <<0>> \o NatMul(a, Tail(b))))

\* a \div m for one limb m, from the most significant limb down.
RECURSIVE NatDivLimb(_, _, _)
NatDivLimb(a, m, rem) ==
    IF a = <<>> THEN <<>>
    ELSE LET cur == rem * Base + a[Len(a)]
         IN  NatDivLimb(SubSeq(a, 1, Len(a) - 1), m, cur % m) \o <<cur \div m>>

NatShl(a, k) ==
    IF a = <<>> THEN a
    ELSE [i \in 1..(k \div LimbBits) |-> 0] \o NatMulLimb(a, 2 ^ (k % LimbBits), 0)

NatShr(a, k) ==
    IF k \div LimbBits >= Len(a) THEN <<>>
    ELSE NatNorm(NatDivLimb(SubSeq(a, k \div LimbBits + 1, Len(a)), 2 ^ (k % LimbBits), 0))

RECURSIVE BitLen(_)
BitLen(n) == IF n = 0 THEN 0 ELSE 1 + BitLen(n \div 2)

NatBitLen(a) == IF a = <<>> THEN 0 ELSE LimbBits * (Len(a) - 1) + BitLen(a[Len(a)])

NatBit(a, i) ==
    IF i \div LimbBits >= Len(a) THEN 0
    ELSE (a[i \div LimbBits + 1] \div (2 ^ (i % LimbBits))) % 2

NatOdd(a) == a # <<>> /\ a[1] % 2 = 1

\* The low k bits of a are all 0.
NatLowZero(a, k) == NatShl(NatShr(a, k), k) = a

\* The largest d in lo..hi with d * b <= cur, by bisection.
RECURSIVE NatQuoDigit(_, _, _, _)
NatQuoDigit(cur, b, lo, hi) ==
    IF lo = hi THEN lo
    ELSE LET mid == (lo + hi + 1) \div 2
         IN  IF NatCmp(NatMulLimb(b, mid, 0), cur) <= 0 THEN NatQuoDigit(cur, b, mid, hi)
             ELSE NatQuoDigit(cur, b, lo, mid - 1)

\* Long division by b # 0 of the limbs j.. of a, a limb at a time.
RECURSIVE NatDivModFrom(_, _, _)
NatDivModFrom(a, b, j) ==
    IF j > Len(a) THEN [quo |-> <<>>, rem |-> <<>>]
    ELSE LET prev == NatDivModFrom(a, b, j + 1)
             cur == NatNorm(<<a[j]>> \o prev.rem)
             d == NatQuoDigit(cur, b, 0, Base - 1)
         IN  [quo |-> NatNorm(<<d>> \o prev.quo), rem |-> NatSub(cur, NatMulLimb(b, d, 0))]

\* Quotient and remainder of a by b # 0.
NatDivMod(a, b) == NatDivModFrom(a, b, 1)

\* The largest d in lo..hi with (high + d * Base^j)^2 <= n, by bisection.
RECURSIVE NatRootDigit(_, _, _, _, _)
NatRootDigit(n, high, j, lo, hi) ==
    IF lo = hi THEN lo
    ELSE LET mid == (lo + hi + 1) \div 2
             cand == NatAdd(high, [i \in 1..j |-> 0] \o <<mid>>)
         IN  IF NatCmp(NatMul(cand, cand), n) <= 0 THEN NatRootDigit(n, high, j, mid, hi)
             ELSE NatRootDigit(n, high, j, lo, mid - 1)

\* The limbs j.. of the largest r with r * r <= n.
RECURSIVE NatSqrtFrom(_, _)
NatSqrtFrom(n, j) ==
    IF 2 * j + 1 > Len(n) THEN <<>>
    ELSE LET high == NatSqrtFrom(n, j + 1)
             d == NatRootDigit(n, high, j, 0, Base - 1)
         IN  NatNorm(NatAdd(high, [i \in 1..j |-> 0] \o <<d>>))

NatSqrt(n) == NatSqrtFrom(n, 0)

\* The number sign * man * 2^exp, with man odd (or zero).
RECURSIVE Dyadic(_, _, _)
Dyadic(sign, man, exp) ==
    IF man = <<>> THEN [sign |-> 1, man |-> <<>>, exp |-> 0]
    ELSE IF man[1] = 0 THEN Dyadic(sign, Tail(man), exp + LimbBits)
    ELSE IF man[1] % 2 = 0 THEN Dyadic(sign, NatShr(man, 1), exp + 1)
    ELSE [sign |-> sign, man |-> man, exp |-> exp]

DyZero == Dyadic(1, <<>>, 0)
DyInt(n) == IF n < 0 THEN Dyadic(-1, NatFromInt(-n), 0) ELSE Dyadic(1, NatFromInt(n), 0)
DyNeg(a) == Dyadic(-a.sign, a.man, a.exp)
DyAbs(a) == Dyadic(1, a.man, a.exp)

\* Exact sum, difference and product.
DyAdd(a, b) ==
    LET e == IF a.exp < b.exp THEN a.exp ELSE b.exp
        x == NatShl(a.man, a.exp - e)
        y == NatShl(b.man, b.exp - e)
    IN  IF a.sign = b.sign THEN Dyadic(a.sign, NatAdd(x, y), e)
        ELSE IF NatCmp(x, y) >= 0 THEN Dyadic(a.sign, NatSub(x, y), e)
        ELSE Dyadic(b.sign, NatSub(y, x), e)

DySub(a, b) == DyAdd(a, DyNeg(b))
DyMul(a, b) == Dyadic(a.sign * b.sign, NatMul(a.man, b.man), a.exp + b.exp)

\* -1, 0 or 1 as a is negative, zero or positive.
DySign(a) == IF a.man = <<>> THEN 0 ELSE a.sign
DyLT(a, b) == DySign(DySub(a, b)) < 0
DyLE(a, b) == DySign(DySub(a, b)) <= 0

\* man \div 2^k rounded to nearest, ties to even.
NatRoundShr(man, k) ==
    IF k <= 0 THEN NatShl(man, -k)
    ELSE LET quo == NatShr(man, k)
             up == NatBit(man, k - 1) = 1 /\ (~NatLowZero(man, k - 1) \/ NatOdd(quo))
         IN  IF up THEN NatAdd(quo, <<1>>) ELSE quo

\* The float nearest to a.
RoundFloat(a) ==
    LET k == NatBitLen(a.man) - MantissaBits
    IN  IF k <= 0 THEN a ELSE Dyadic(a.sign, NatRoundShr(a.man, k), a.exp + k)

FloatAdd(a, b) == RoundFloat(DyAdd(a, b))
FloatSub(a, b) == RoundFloat(DySub(a, b))
FloatMul(a, b) == RoundFloat(DyMul(a, b))

\* x ** 2 and x ** 0.5 are the C library's pow, taken as correctly rounded.
FloatSquare(a) == FloatMul(a, a)

\* a / b for b # 0: the quotient to 56 bits and more, its last bit set when
\* the division leaves a remainder, then rounded.
FloatDiv(a, b) ==
    LET need == MantissaBits + 3 + NatBitLen(b.man) - NatBitLen(a.man)
        s == IF need > 0 THEN need ELSE 0
        d == NatDivMod(NatShl(a.man, s), b.man)
    IN  IF a.man = <<>> THEN DyZero
        ELSE RoundFloat(Dyadic(a.sign * b.sign,
                               NatMulLimb(d.quo, 2, IF d.rem = <<>> THEN 0 ELSE 1),
                               a.exp - b.exp - s - 1))

\* a ** 0.5 for a >= 0.
FloatRoot(a) ==
    LET need == 2 * (MantissaBits + 3) - NatBitLen(a.man)
        s0 == IF need > 0 THEN need ELSE 0
        s == IF (a.exp - s0) % 2 = 0 THEN s0 ELSE s0 + 1
        n == NatShl(a.man, s)
        root == NatSqrt(n)
    IN  IF a.man = <<>> THEN DyZero
        ELSE RoundFloat(Dyadic(1, NatMulLimb(root, 2, IF NatMul(root, root) = n THEN 0 ELSE 1),
                               (a.exp - s) \div 2 - 1))

\* round(a, 4) as a number of ten-thousandths: [sign, units].
Round4(a) ==
    LET units == NatRoundShr(NatMul(a.man, NatFromInt(10000)), -a.exp)
    IN  [sign |-> IF units = <<>> THEN 1 ELSE a.sign, units |-> units]

(***************************************************************************)
(* Cells and float().                                                      *)
(***************************************************************************)
NoneCell == "<None>"

\* float(val) of the strings that parse, as the binary64 number nearest the decimal;
\* "nan" parses to the value that is no number, written with sign 0.
FloatTable ==
    { <<"0", [sign |-> 1, man |-> <<>>, exp |-> 0]>>,
      <<"1", [sign |-> 1, man |-> <<1>>, exp |-> 0]>>,
      <<"2", [sign |-> 1, man |-> <<1>>, exp |-> 1]>>,
      <<"3", [sign |-> 1, man |-> <<3>>, exp |-> 0]>>,
      <<"4", [sign |-> 1, man |-> <<1>>, exp |-> 2]>>,
      <<"1.0", [sign |-> 1, man |-> <<1>>, exp |-> 0]>>,
      <<"-1", [sign |-> -1, man |-> <<1>>, exp |-> 0]>>,
      <<"0.5", [sign |-> 1, man |-> <<1>>, exp |-> -1]>>,
      <<"0.3", [sign |-> 1, man |-> <<13107, 3276, 13107, 1228>>, exp |-> -54]>>,
      <<"0.7", [sign |-> 1, man |-> <<13107, 3276, 13107, 716>>, exp |-> -52]>>,
      <<"134217728", [sign |-> 1, man |-> <<1>>, exp |-> 27]>>,
      <<"134217729", [sign |-> 1, man |-> <<1, 8192>>, exp |-> 0]>>,
      <<"nan", [sign |-> 0, man |-> <<>>, exp |-> 0]>> }

NumericStrings == { e[1] : e \in FloatTable }

\* float(val) of a cell that parses.
FloatBits(val) == (CHOOSE e \in FloatTable : e[1] = val)[2]

\* float(val) raises ValueError on a string that is no number and TypeError on None.
FloatError(val) == IF val = NoneCell THEN "TypeError" ELSE "ValueError"

is_valid_number(val) == val \in NumericStrings

\* The values a column of the modelled files may hold.
ColumnCells(col) ==
    CASE col = "g" -> {"A", "B", ""}
      [] col = "v" -> {"1", "2", "x"}
      [] col = "n" -> {"1", "2", "4", "x", "", NoneCell}
      [] col = "c" -> {"A", "B", "", " ", NoneCell}
      [] col = "m" -> {"1", "2", "nan", "x", NoneCell}
      [] OTHER -> {""}

(***************************************************************************)
(* Exact arithmetic.                                                       *)
(***************************************************************************)
Abs(i) == IF i < 0 THEN -i ELSE i

RECURSIVE GCD(_, _)
GCD(a, b) == IF b = 0 THEN a ELSE GCD(b, a % b)

Rat(n, d) ==
    LET s == IF d < 0 THEN -1 ELSE 1
        g == GCD(Abs(n), Abs(d))
    IN  <<(s * n) \div g, (s * d) \div g>>

Zero == <<0, 1>>
RatInt(i) == <<i, 1>>
RatAdd(a, b) == Rat(a[1] * b[2] + b[1] * a[2], a[2] * b[2])
RatSub(a, b) == Rat(a[1] * b[2] - b[1] * a[2], a[2] * b[2])
RatMul(a, b) == Rat(a[1] * b[1], a[2] * b[2])
RatDivInt(a, k) == Rat(a[1], a[2] * k)
RatLT(a, b) == a[1] * b[2] < b[1] * a[2]
RatLE(a, b) == a[1] * b[2] <= b[1] * a[2]

RECURSIVE NatToInt(_)
NatToInt(a) == IF a = <<>> THEN 0 ELSE Head(a) + Base * NatToInt(Tail(a))

\* float("nan") among the rationals: the one value with denominator 0.
NaN == <<0, 0>>

\* float(val) as an exact rational, for the values whose arithmetic stays exact.
Float(val) ==
    LET f == FloatBits(val)
    IN  IF f.sign = 0 THEN NaN
        ELSE IF f.exp >= 0 THEN RatInt(f.sign * NatToInt(f.man) * 2 ^ f.exp)
        ELSE Rat(f.sign * NatToInt(f.man), 2 ^ (-f.exp))

RECURSIVE SumSeq(_)
SumSeq(v) == IF v = <<>> THEN Zero ELSE RatAdd(SumSeq(SubSeq(v, 1, Len(v) - 1)), v[Len(v)])

RECURSIVE MinSeq(_)
MinSeq(v) ==
    IF Len(v) = 1 THEN v[1]
    ELSE LET m == MinSeq(SubSeq(v, 1, Len(v) - 1))
         IN  IF RatLT(v[Len(v)], m) THEN v[Len(v)] ELSE m

RECURSIVE MaxSeq(_)
MaxSeq(v) ==
    IF Len(v) = 1 THEN v[1]
    ELSE LET m == MaxSeq(SubSeq(v, 1, Len(v) - 1))
         IN  IF RatLT(m, v[Len(v)]) THEN v[Len(v)] ELSE m

(***************************************************************************)
(* Python values: dict, row.get, return and raise.                         *)
(***************************************************************************)
Range(s) == { s[i] : i \in 1..Len(s) }

DictKeys(d) == { d[i][1] : i \in 1..Len(d) }
DictHas(d, k) == k \in DictKeys(d)
DictGet(d, k, default) ==
    IF DictHas(d, k) THEN d[CHOOSE i \in 1..Len(d) : d[i][1] = k][2] ELSE default
\* d[k] = v: an existing key keeps its place, a new key goes last.
DictSet(d, k, v) ==
    IF DictHas(d, k) THEN [i \in 1..Len(d) |-> IF d[i][1] = k THEN <<k, v>> ELSE d[i]]
    ELSE Append(d, <<k, v>>)
DictValues(d) == [i \in 1..Len(d) |-> d[i][2]]
\* dict == dict ignores insertion order.
DictEq(a, b) == Range(a) = Range(b)

RowGet(row, col, default) == IF col \in DOMAIN row THEN row[col] ELSE default

Return(v) == [raised |-> "", value |-> v]
Raise(e) == [raised |-> e, value |-> <<>>]
Returned(r) == r.raised = ""

(***************************************************************************)
(* DataAggregator                                                          *)
(***************************************************************************)
\* The (key, value) stream of aggregate and rank: rows whose value parses.
RECURSIVE KeyValueStream(_, _, _)
KeyValueStream(rows, key_col, value_col) ==
    IF rows = <<>> THEN <<>>
    ELSE LET row == Head(rows)
             rest == KeyValueStream(Tail(rows), key_col, value_col)
         IN  IF is_valid_number(RowGet(row, value_col, NoneCell))
             THEN <<<<RowGet(row, key_col, "Unknown"), Float(RowGet(row, value_col, "0"))>>>> \o rest
             ELSE rest

\* Faulty variant of GroupStream: a key's list is replaced, not extended.
RECURSIVE GroupStreamOverwrite(_)
GroupStreamOverwrite(stream) ==
    IF stream = <<>> THEN <<>>
    ELSE DictSet(GroupStreamOverwrite(SubSeq(stream, 1, Len(stream) - 1)),
                 stream[Len(stream)][1], <<stream[Len(stream)][2]>>)

\* reduce(lambda acc, item: {**acc, item[0]: acc.get(item[0], []) + [item[1]]}, stream, {})
RECURSIVE GroupStream(_)
GroupStream(stream) ==
    IF stream = <<>> THEN <<>>
    ELSE LET acc == GroupStream(SubSeq(stream, 1, Len(stream) - 1))
             item == stream[Len(stream)]
         IN  DictSet(acc, item[1], Append(DictGet(acc, item[1], <<>>), item[2]))

AggregateOps == {"sum", "avg", "min", "max", "count"}

\* Faulty variant of ApplyAggregateOp: "count" is missing from ops and falls back to sum.
ApplyAggregateOpNoCount(operation, v) ==
    CASE operation = "avg" -> IF v # <<>> THEN RatDivInt(SumSeq(v), Len(v)) ELSE Zero
      [] operation = "min" -> IF v # <<>> THEN MinSeq(v) ELSE Zero
      [] operation = "max" -> IF v # <<>> THEN MaxSeq(v) ELSE Zero
      [] OTHER -> SumSeq(v)

ApplyAggregateOp(operation, v) ==
    CASE operation = "avg" -> IF v # <<>> THEN RatDivInt(SumSeq(v), Len(v)) ELSE Zero
      [] operation = "min" -> IF v # <<>> THEN MinSeq(v) ELSE Zero
      [] operation = "max" -> IF v # <<>> THEN MaxSeq(v) ELSE Zero
      [] operation = "count" -> RatInt(Len(v))
      [] OTHER -> SumSeq(v)

\* Faulty variant of aggregate: only group_col is checked against the headers.
aggregateUncheckedValue(rows, hdrs, group_col, value_col, operation) ==
    IF group_col \notin Range(hdrs)
    THEN Raise("ValueError")
    ELSE LET grouped == GroupStream(KeyValueStream(rows, group_col, value_col))
         IN  Return([i \in 1..Len(grouped) |->
                       <<grouped[i][1], ApplyAggregateOp(operation, grouped[i][2])>>])

aggregate(rows, hdrs, group_col, value_col, operation) ==
    IF group_col \notin Range(hdrs) \/ value_col \notin Range(hdrs)
    THEN Raise("ValueError")
    ELSE LET grouped == GroupStream(KeyValueStream(rows, group_col, value_col))
         IN  Return([i \in 1..Len(grouped) |->
                       <<grouped[i][1], ApplyAggregateOp(operation, grouped[i][2])>>])

RECURSIVE group_and_count(_, _)
group_and_count(rows, group_col) ==
    IF rows = <<>> THEN Return(<<>>)
    ELSE LET acc == group_and_count(SubSeq(rows, 1, Len(rows) - 1), group_col).value
             key == RowGet(rows[Len(rows)], group_col, "Unknown")
         IN  Return(DictSet(acc, key, RatAdd(DictGet(acc, key, Zero), RatInt(1))))

\* build_nested: one dict level per group column, the leaf accumulates a sum.
\* Faulty variant of build_nested: a value replaces the leaf instead of adding to it.
RECURSIVE build_nested_replacing(_, _, _)
build_nested_replacing(acc, keys, val) ==
    IF Len(keys) = 1
    THEN DictSet(acc, keys[1], val)
    ELSE DictSet(acc, keys[1],
                 build_nested_replacing(DictGet(acc, keys[1], <<>>), Tail(keys), val))

RECURSIVE build_nested(_, _, _)
build_nested(acc, keys, val) ==
    IF Len(keys) = 1
    THEN DictSet(acc, keys[1], RatAdd(DictGet(acc, keys[1], Zero), val))
    ELSE DictSet(acc, keys[1], build_nested(DictGet(acc, keys[1], <<>>), Tail(keys), val))

RECURSIVE NestedReduce(_, _, _)
NestedReduce(rows, group_cols, value_col) ==
    IF rows = <<>> THEN <<>>
    ELSE LET acc == NestedReduce(SubSeq(rows, 1, Len(rows) - 1), group_cols, value_col)
             row == rows[Len(rows)]
         IN  IF is_valid_number(RowGet(row, value_col, NoneCell))
             THEN build_nested(acc,
                               [i \in 1..Len(group_cols) |-> RowGet(row, group_cols[i], "Unknown")],
                               Float(RowGet(row, value_col, "0")))
             ELSE acc

\* The operation argument is accepted and never read.
group_by_multi(rows, hdrs, group_cols, value_col, operation) ==
    IF group_cols = <<>> \/ value_col \notin Range(hdrs)
    THEN Raise("ValueError")
    ELSE Return(NestedReduce(rows, group_cols, value_col))

\* {col: [] for col in metric_cols}
RECURSIVE EmptyMetrics(_)
EmptyMetrics(metric_cols) ==
    IF metric_cols = <<>> THEN <<>>
    ELSE DictSet(EmptyMetrics(SubSeq(metric_cols, 1, Len(metric_cols) - 1)),
                 metric_cols[Len(metric_cols)], <<>>)

\* Faulty variant of AppendMetrics: a row counts only when all its metrics parse.
AppendMetricsJointly(metrics, row, metric_cols) ==
    IF \A i \in 1..Len(metric_cols) : is_valid_number(RowGet(row, metric_cols[i], NoneCell))
    THEN [i \in 1..Len(metrics) |->
            <<metrics[i][1], Append(metrics[i][2], Float(RowGet(row, metrics[i][1], "0")))>>]
    ELSE metrics

\* for metric_col in metric_cols: append the row's value when it parses.
RECURSIVE AppendMetrics(_, _, _)
AppendMetrics(metrics, row, metric_cols) ==
    IF metric_cols = <<>> THEN metrics
    ELSE LET m == AppendMetrics(metrics, row, SubSeq(metric_cols, 1, Len(metric_cols) - 1))
             col == metric_cols[Len(metric_cols)]
         IN  IF is_valid_number(RowGet(row, col, NoneCell))
             THEN DictSet(m, col, Append(DictGet(m, col, <<>>), Float(RowGet(row, col, "0"))))
             ELSE m

RECURSIVE accumulate_metrics(_, _, _)
accumulate_metrics(rows, group_col, metric_cols) ==
    IF rows = <<>> THEN <<>>
    ELSE LET acc == accumulate_metrics(SubSeq(rows, 1, Len(rows) - 1), group_col, metric_cols)
             row == rows[Len(rows)]
             group_key == RowGet(row, group_col, "Unknown")
             acc1 == IF DictHas(acc, group_key) THEN acc
                     ELSE DictSet(acc, group_key, EmptyMetrics(metric_cols))
         IN  DictSet(acc1, group_key,
                     AppendMetrics(DictGet(acc1, group_key, <<>>), row, metric_cols))

calc_avg(vals) == IF vals # <<>> THEN RatDivInt(SumSeq(vals), Len(vals)) ELSE Zero

compare_metrics(rows, group_col, metric_cols) ==
    LET grouped == accumulate_metrics(rows, group_col, metric_cols)
    IN  Return([i \in 1..Len(grouped) |->
                  <<grouped[i][1],
                    [j \in 1..Len(grouped[i][2]) |->
                       <<grouped[i][2][j][1], calc_avg(grouped[i][2][j][2])>>]>>])

\* Faulty variant of Comparator: nan is compared as if it were a number, equal to
\* itself and below none.
ComparatorOfNumbers(operator, x, y) ==
    CASE operator = ">" -> RatLT(y, x)
      [] operator = "<" -> RatLT(x, y)
      [] operator = ">=" -> RatLE(y, x)
      [] operator = "<=" -> RatLE(x, y)
      [] operator = "!=" -> x # y
      [] OTHER -> x = y

\* ops.get(operator, ops['==']) applied to (x, y); a comparison with nan is false,
\* but for != which is true.
Comparator(operator, x, y) ==
    IF x = NaN \/ y = NaN THEN operator = "!="
    ELSE CASE operator = ">" -> RatLT(y, x)
           [] operator = "<" -> RatLT(x, y)
           [] operator = ">=" -> RatLE(y, x)
           [] operator = "<=" -> RatLE(x, y)
           [] operator = "!=" -> x # y
           [] OTHER -> x = y

filter_by_condition(rows, col, operator, value) ==
    LET keep(row) == IF is_valid_number(RowGet(row, col, NoneCell))
                     THEN Comparator(operator, Float(RowGet(row, col, "0")), value)
                     ELSE FALSE
    IN  Return(SelectSeq(rows, keep))

RECURSIVE build_crosstab(_, _, _)
build_crosstab(rows, col1, col2) ==
    IF rows = <<>> THEN <<>>
    ELSE LET acc == build_crosstab(SubSeq(rows, 1, Len(rows) - 1), col1, col2)
             row == rows[Len(rows)]
             key1 == RowGet(row, col1, "Unknown")
             key2 == RowGet(row, col2, "Unknown")
             acc1 == IF DictHas(acc, key1) THEN acc ELSE DictSet(acc, key1, <<>>)
             inner == DictGet(acc1, key1, <<>>)
         IN  DictSet(acc1, key1,
                     DictSet(inner, key2, RatAdd(DictGet(inner, key2, Zero), RatInt(1))))

cross_tabulation(rows, col1, col2) == Return(build_crosstab(rows, col1, col2))

(***************************************************************************)
(* DataAnalyzer                                                            *)
(***************************************************************************)
\* sorted(items, key=lambda x: x[1], reverse=True): a stable sort, so items of
\* equal value keep their order.
RECURSIVE InsertDesc(_, _)
InsertDesc(sorted, item) ==
    IF sorted = <<>> THEN <<item>>
    ELSE IF RatLT(Head(sorted)[2], item[2]) THEN <<item>> \o sorted
    ELSE <<Head(sorted)>> \o InsertDesc(Tail(sorted), item)

\* Faulty variant of SortedDesc: the items are left in insertion order.
Unsorted(items) == items

\* Faulty variant of SortedDesc: an item is placed before the items of equal value.
RECURSIVE SortedDescTiesReversed(_)
SortedDescTiesReversed(items) ==
    IF items = <<>> THEN <<>>
    ELSE LET sorted == SortedDescTiesReversed(SubSeq(items, 1, Len(items) - 1))
             item == items[Len(items)]
             before == SelectSeq(sorted, LAMBDA e : RatLT(item[2], e[2]))
             after == SelectSeq(sorted, LAMBDA e : RatLE(e[2], item[2]))
         IN  before \o <<item>> \o after

RECURSIVE SortedDesc(_)
SortedDesc(items) ==
    IF items = <<>> THEN <<>>
    ELSE InsertDesc(SortedDesc(SubSeq(items, 1, Len(items) - 1)), items[Len(items)])

\* s[:limit], a negative limit counting from the end.
SliceTo(s, limit) ==
    IF limit >= 0 THEN SubSeq(s, 1, IF limit < Len(s) THEN limit ELSE Len(s))
    ELSE SubSeq(s, 1, Len(s) + limit)

ApplyRankOp(operation, v) ==
    CASE operation = "avg" -> IF v # <<>> THEN RatDivInt(SumSeq(v), Len(v)) ELSE Zero
      [] operation = "count" -> RatInt(Len(v))
      [] OTHER -> SumSeq(v)

rank(rows, rank_col, value_col, limit, operation) ==
    LET aggregated == GroupStream(KeyValueStream(rows, rank_col, value_col))
        results == [i \in 1..Len(aggregated) |->
                      <<aggregated[i][1], ApplyRankOp(operation, aggregated[i][2])>>]
    IN  Return(SliceTo(SortedDesc(results), limit))

\* Strings that str.strip() leaves empty.
WhitespaceOnly == {"", " "}

\* val and str(val).strip()
NonBlank(val) == val # NoneCell /\ val \notin WhitespaceOnly

\* Faulty variant of CountValues: the empty and whitespace-only values are counted too.
RECURSIVE CountValuesOfAll(_, _)
CountValuesOfAll(rows, col) ==
    IF rows = <<>> THEN <<>>
    ELSE LET acc == CountValuesOfAll(SubSeq(rows, 1, Len(rows) - 1), col)
             val == RowGet(rows[Len(rows)], col, "Unknown")
         IN  DictSet(acc, val, RatAdd(DictGet(acc, val, Zero), RatInt(1)))

RECURSIVE CountValues(_, _)
CountValues(rows, col) ==
    IF rows = <<>> THEN <<>>
    ELSE LET acc == CountValues(SubSeq(rows, 1, Len(rows) - 1), col)
             val == RowGet(rows[Len(rows)], col, "Unknown")
         IN  IF NonBlank(val) THEN DictSet(acc, val, RatAdd(DictGet(acc, val, Zero), RatInt(1)))
             ELSE acc

get_distribution(rows, col, top_n) ==
    Return(SliceTo(SortedDesc(CountValues(rows, col)), top_n))

\* Faulty variant of NumericValues: a cell that does not parse is taken as 0, not dropped.
RECURSIVE NumericValuesZeroFill(_, _)
NumericValuesZeroFill(rows, col) ==
    IF rows = <<>> THEN <<>>
    ELSE LET val == RowGet(Head(rows), col, "0")
         IN  <<IF is_valid_number(val) THEN Float(val) ELSE Zero>>
               \o NumericValuesZeroFill(Tail(rows), col)

\* list(map(float, filter(is_valid_number, map(lambda row: row.get(col, 0), data))))
RECURSIVE NumericValues(_, _)
NumericValues(rows, col) ==
    IF rows = <<>> THEN <<>>
    ELSE LET val == RowGet(Head(rows), col, "0")
             rest == NumericValues(Tail(rows), col)
         IN  IF is_valid_number(val) THEN <<Float(val)>> \o rest ELSE rest

\* sorted(values), ascending.
RECURSIVE InsertAsc(_, _)
InsertAsc(sorted, x) ==
    IF sorted = <<>> THEN <<x>>
    ELSE IF RatLT(x, Head(sorted)) THEN <<x>> \o sorted
    ELSE <<Head(sorted)>> \o InsertAsc(Tail(sorted), x)

RECURSIVE SortedAsc(_)
SortedAsc(values) ==
    IF values = <<>> THEN <<>>
    ELSE InsertAsc(SortedAsc(SubSeq(values, 1, Len(values) - 1)), values[Len(values)])

\* Faulty variant of median: the middle of the values as they stand, unsorted.
medianUnsorted(values) ==
    LET n == Len(values)
    IN  IF n % 2 = 1 THEN values[n \div 2 + 1]
        ELSE RatDivInt(RatAdd(values[n \div 2], values[n \div 2 + 1]), 2)

\* statistics.median
median(values) ==
    LET s == SortedAsc(values)
        n == Len(s)
    IN  IF n % 2 = 1 THEN s[n \div 2 + 1]
        ELSE RatDivInt(RatAdd(s[n \div 2], s[n \div 2 + 1]), 2)

RECURSIVE SumSquaredDeviations(_, _)
SumSquaredDeviations(values, mean_val) ==
    IF values = <<>> THEN Zero
    ELSE RatAdd(SumSquaredDeviations(SubSeq(values, 1, Len(values) - 1), mean_val),
                RatMul(RatSub(values[Len(values)], mean_val),
                       RatSub(values[Len(values)], mean_val)))

\* The sample variance, divisor n - 1.
SampleVariance(values) ==
    RatDivInt(SumSquaredDeviations(values, RatDivInt(SumSeq(values), Len(values))),
              Len(values) - 1)

\* A square root, kept exact as its radicand; Sqrt(Zero) is the number 0.
Sqrt(x) == [radicand |-> x]

get_statistics(rows, col) ==
    LET values == NumericValues(rows, col)
        count == Len(values)
        total == SumSeq(values)
    IN  IF values = <<>>
        THEN Return([count |-> Zero, sum |-> Zero, avg |-> Zero, min |-> Zero, max |-> Zero,
                     median |-> Zero, std_dev |-> Sqrt(Zero), range |-> Zero])
        ELSE Return([count |-> RatInt(count),
                     sum |-> total,
                     avg |-> RatDivInt(total, count),
                     min |-> MinSeq(values),
                     max |-> MaxSeq(values),
                     median |-> median(values),
                     std_dev |-> IF count > 1 THEN Sqrt(SampleVariance(values)) ELSE Sqrt(Zero),
                     range |-> RatSub(MaxSeq(values), MinSeq(values))])

\* reduce(lambda acc, x: acc + x, values, 0): the floats added from the left.
RECURSIVE FloatSum(_)
FloatSum(values) ==
    IF values = <<>> THEN DyZero
    ELSE FloatAdd(FloatSum(SubSeq(values, 1, Len(values) - 1)), values[Len(values)])

\* The rows in which both columns parse, as (x, y) pairs of floats.
RECURSIVE ValidPairs(_, _, _)
ValidPairs(rows, metric_col1, metric_col2) ==
    IF rows = <<>> THEN <<>>
    ELSE LET row == Head(rows)
             rest == ValidPairs(Tail(rows), metric_col1, metric_col2)
         IN  IF is_valid_number(RowGet(row, metric_col1, NoneCell))
                /\ is_valid_number(RowGet(row, metric_col2, NoneCell))
             THEN <<<<FloatBits(RowGet(row, metric_col1, "0")),
                      FloatBits(RowGet(row, metric_col2, "0"))>>>> \o rest
             ELSE rest

\* The float literals 0.9, 0.7 and 0.5 of the strength classification.
PerfectBound == [sign |-> 1, man |-> <<3277, 13107, 3276, 1843>>, exp |-> -53]
StrongBound == [sign |-> 1, man |-> <<13107, 3276, 13107, 716>>, exp |-> -52]
ModerateBound == [sign |-> 1, man |-> <<1>>, exp |-> -1]

\* The labels of a float correlation.
Strength(correlation) ==
    IF DyLE(PerfectBound, DyAbs(correlation)) THEN "perfect"
    ELSE IF DyLE(StrongBound, DyAbs(correlation)) THEN "strong"
    ELSE IF DyLE(ModerateBound, DyAbs(correlation)) THEN "moderate"
    ELSE IF DySign(correlation) # 0 THEN "weak"
    ELSE "none"

Direction(correlation) ==
    IF DySign(correlation) > 0 THEN "positive"
    ELSE IF DySign(correlation) < 0 THEN "negative"
    ELSE "none"

\* The result when correlation is the integer 0.
NoCorrelation == [correlation |-> Round4(DyZero), strength |-> "none", direction |-> "none"]

correlate_metrics(rows, metric_col1, metric_col2) ==
    LET pairs == ValidPairs(rows, metric_col1, metric_col2)
        n == DyInt(Len(pairs))
        sum_x == FloatSum([i \in 1..Len(pairs) |-> pairs[i][1]])
        sum_y == FloatSum([i \in 1..Len(pairs) |-> pairs[i][2]])
        sum_xy == FloatSum([i \in 1..Len(pairs) |-> FloatMul(pairs[i][1], pairs[i][2])])
        sum_x2 == FloatSum([i \in 1..Len(pairs) |-> FloatSquare(pairs[i][1])])
        sum_y2 == FloatSum([i \in 1..Len(pairs) |-> FloatSquare(pairs[i][2])])
        numerator == FloatSub(FloatMul(n, sum_xy), FloatMul(sum_x, sum_y))
        \* denominator is radicand ** 0.5
        radicand == FloatMul(FloatSub(FloatMul(n, sum_x2), FloatSquare(sum_x)),
                             FloatSub(FloatMul(n, sum_y2), FloatSquare(sum_y)))
        correlation == FloatDiv(numerator, FloatRoot(radicand))
    IN  IF Len(pairs) < 2 THEN Return(NoCorrelation)
        \* a negative float ** 0.5 is a complex number, and correlation > 0 then raises
        ELSE IF DySign(radicand) < 0 THEN Raise("TypeError")
        ELSE IF DySign(radicand) = 0 THEN Return(NoCorrelation)
        ELSE Return([correlation |-> Round4(correlation),
                     strength |-> Strength(correlation),
                     direction |-> Direction(correlation)])

\* list(filter(is_valid_number, map(lambda row: row.get(col, 0), data))), then map(float, ...)
RECURSIVE FloatValues(_, _)
FloatValues(rows, col) ==
    IF rows = <<>> THEN <<>>
    ELSE LET val == RowGet(Head(rows), col, "0")
             rest == FloatValues(Tail(rows), col)
         IN  IF is_valid_number(val) THEN <<FloatBits(val)>> \o rest ELSE rest

find_outliers(rows, col, threshold) ==
    LET values == FloatValues(rows, col)
        mean_val == FloatDiv(FloatSum(values), DyInt(Len(values)))
        variance == FloatDiv(FloatSum([i \in 1..Len(values) |->
                                          FloatSquare(FloatSub(values[i], mean_val))]),
                             DyInt(Len(values) - 1))
        stdev_val == FloatRoot(variance)
        outlier_threshold == FloatMul(threshold, stdev_val)
        outlying(x) == DyLT(outlier_threshold, DyAbs(FloatSub(x, mean_val)))
    IN  IF Len(values) < 2 THEN Return(<<>>)
        ELSE Return(SelectSeq(values, outlying))

\* int(x) of the rational num / den: truncation towards zero.
Trunc(num, den) == IF num >= 0 THEN num \div den ELSE -((-num) \div den)

\* values[index], a negative index counting from the end.
Index(values, index) ==
    IF index >= Len(values) \/ index < -Len(values) THEN Raise("IndexError")
    ELSE IF index >= 0 THEN Return(values[index + 1])
    ELSE Return(values[Len(values) + index + 1])

\* float() is applied to every cell before the filter runs: the first cell that does
\* not parse raises.  p is a whole number of percent.
percentile(rows, col, p) ==
    LET cells == [i \in 1..Len(rows) |-> RowGet(rows[i], col, "0")]
        bad == { i \in 1..Len(rows) : ~is_valid_number(cells[i]) }
        values == SortedAsc([i \in 1..Len(rows) |-> Float(cells[i])])
    IN  IF bad # {}
        THEN Raise(FloatError(cells[CHOOSE i \in bad : \A j \in bad : i <= j]))
        ELSE IF values = <<>> THEN Return(Zero)
        ELSE Index(values, Trunc(p * (Len(values) - 1), 100))

(***************************************************************************)
(* DataLoader._process_stream                                              *)
(***************************************************************************)
\* The rows of the modelled file of two metric columns x and y.
PairRows ==
    { [x |-> "0.7", y |-> "0"],
      [x |-> "0.7", y |-> "0.3"],
      [x |-> "134217728", y |-> "0"],
      [x |-> "134217729", y |-> "1"],
      [x |-> "1", y |-> "t"] }

FileRows(hdrs) ==
    IF hdrs = <<"x", "y">> THEN PairRows
    ELSE { r \in [Range(hdrs) -> UNION { ColumnCells(c) : c \in Range(hdrs) }] :
             \A c \in Range(hdrs) : r[c] \in ColumnCells(c) }

NoCall == [op |-> "none", args |-> <<>>, out |-> Return(<<>>)]

\* self.aggregator = None and self.analyzer = None: no records, no headers.  Once
\* load_csv has built the two, components is what they were built on.
NoComponents == [headers |-> <<>>, data |-> <<>>, numeric_cols |-> <<>>]

\* DataLoader.__init__, and reader.fieldnames read from the stream.
InitWith(hdrs) ==
    /\ headers = hdrs
    /\ data = <<>>
    /\ numeric_cols = <<>>
    /\ categorical_cols = <<>>
    /\ components = NoComponents
    /\ pc = "rows"
    /\ last = NoCall

Init == InitWith(<<"g", "v">>)

InitColumn == InitWith(<<"n">>)

InitPairs == InitWith(<<"x", "y">>)

InitCategory == InitWith(<<"c">>)

InitFilter == InitWith(<<"m">>)

\* for row in reader: self.data.append(row)
ProcessRow(max) ==
    /\ pc = "rows"
    /\ Len(data) < max
    /\ \E row \in FileRows(headers) : data' = Append(data, row)
    /\ UNCHANGED <<headers, numeric_cols, categorical_cols, components, pc, last>>

\* type_confidence[col]["numeric"] once every row is read.
RECURSIVE NumericCount(_, _)
NumericCount(rows, col) ==
    IF rows = <<>> THEN 0
    ELSE LET value == RowGet(Head(rows), col, "")
         IN  NumericCount(Tail(rows), col)
               + (IF NonBlank(value) /\ is_valid_number(value) THEN 1 ELSE 0)

\* Faulty variant of IsNumericColumn: the cells that are empty or missing are left
\* out of the total.
IsNumericColumnOfNonEmpty(rows, col) ==
    LET total == Len(SelectSeq(rows, LAMBDA row : NonBlank(RowGet(row, col, ""))))
    IN  5 * NumericCount(rows, col) >= 4 * (IF total > 1 THEN total ELSE 1)

\* numeric / max(total, 1) >= 0.8
IsNumericColumn(rows, col) ==
    5 * NumericCount(rows, col) >= 4 * (IF Len(rows) > 1 THEN Len(rows) ELSE 1)

\* The end of _process_stream; load_csv then builds the aggregator and the analyzer.
Classify ==
    /\ pc = "rows"
    /\ numeric_cols' = SelectSeq(headers, LAMBDA col : IsNumericColumn(data, col))
    /\ categorical_cols' = SelectSeq(headers, LAMBDA col : ~IsNumericColumn(data, col))
    /\ components' = [headers |-> headers, data |-> data, numeric_cols |-> numeric_cols']
    /\ pc' = "ready"
    /\ UNCHANGED <<headers, data, last>>

(***************************************************************************)
(* Calls.  The caller holds one result at a time (last) and lets go of it   *)
(* before the next call; neither component keeps anything between calls.   *)
(***************************************************************************)
\* Column names a caller passes: the headers and one name that is no header.
CallColumns == Range(headers) \cup {"zz"}

Operations == AggregateOps \cup {"median"}
GroupColumnLists == {<<>>, <<"g">>, <<"g", "v">>, <<"zz">>}
MetricColumnLists == {<<"v">>, <<"v", "g">>, <<"zz">>}
Operators == {">", "<", ">=", "<=", "==", "!=", "~"}
Thresholds == {<<1, 1>>, <<2, 1>>, NaN}
Limits == 0..3
Percentiles == {0, 50, 75, 100}
SigmaThresholds == {DyInt(0), DyInt(1), DyInt(2)}

CanCall == pc = "ready" /\ last = NoCall

\* Faulty variant of Call: the operation consumes the records it scans.
CallConsuming(op, args, out) ==
    /\ CanCall
    /\ last' = [op |-> op, args |-> args, out |-> out]
    /\ data' = <<>>
    /\ UNCHANGED <<headers, numeric_cols, categorical_cols, components, pc>>

Call(op, args, out) ==
    /\ CanCall
    /\ last' = [op |-> op, args |-> args, out |-> out]
    /\ UNCHANGED <<headers, data, numeric_cols, categorical_cols, components, pc>>

Discard ==
    /\ last # NoCall
    /\ last' = NoCall
    /\ UNCHANGED <<headers, data, numeric_cols, categorical_cols, components, pc>>

Aggregate ==
    \E group_col \in CallColumns, value_col \in CallColumns, operation \in Operations :
        Call("aggregate", <<group_col, value_col, operation>>,
             aggregate(data, headers, group_col, value_col, operation))

GroupByMulti ==
    \E group_cols \in GroupColumnLists, value_col \in CallColumns, operation \in Operations :
        Call("group_by_multi", <<group_cols, value_col, operation>>,
             group_by_multi(data, headers, group_cols, value_col, operation))

CompareMetrics ==
    \E group_col \in CallColumns, metric_cols \in MetricColumnLists :
        Call("compare_metrics", <<group_col, metric_cols>>,
             compare_metrics(data, group_col, metric_cols))

FilterByCondition ==
    \E col \in CallColumns, operator \in Operators, value \in Thresholds :
        Call("filter_by_condition", <<col, operator, value>>,
             filter_by_condition(data, col, operator, value))

GroupAndCount ==
    \E group_col \in CallColumns :
        Call("group_and_count", <<group_col>>, group_and_count(data, group_col))

CrossTabulation ==
    \E col1 \in CallColumns, col2 \in CallColumns :
        Call("cross_tabulation", <<col1, col2>>, cross_tabulation(data, col1, col2))

RankOp ==
    \E rank_col \in CallColumns, value_col \in CallColumns, limit \in Limits,
       operation \in {"sum", "avg", "count", "min"} :
        Call("rank", <<rank_col, value_col, limit, operation>>,
             rank(data, rank_col, value_col, limit, operation))

GetDistribution ==
    \E col \in CallColumns, top_n \in 0..2 :
        Call("get_distribution", <<col, top_n>>, get_distribution(data, col, top_n))

GetStatistics ==
    \E col \in CallColumns :
        Call("get_statistics", <<col>>, get_statistics(data, col))

CorrelateMetrics ==
    \E metric_col1 \in CallColumns, metric_col2 \in CallColumns :
        Call("correlate_metrics", <<metric_col1, metric_col2>>,
             correlate_metrics(data, metric_col1, metric_col2))

FindOutliers ==
    \E col \in CallColumns, threshold \in SigmaThresholds :
        Call("find_outliers", <<col, threshold>>, find_outliers(data, col, threshold))

Percentile ==
    \E col \in CallColumns, p \in Percentiles :
        Call("percentile", <<col, p>>, percentile(data, col, p))

AggregatorCall ==
    \/ Aggregate
    \/ GroupByMulti
    \/ CompareMetrics
    \/ FilterByCondition
    \/ GroupAndCount
    \/ CrossTabulation

AnalyzerCall ==
    \/ RankOp
    \/ GetDistribution
    \/ GetStatistics
    \/ CorrelateMetrics
    \/ FindOutliers
    \/ Percentile

Next ==
    \/ ProcessRow(MaxRows)
    \/ Classify
    \/ AggregatorCall
    \/ AnalyzerCall
    \/ Discard

\* A file of the grouping column g and the value column v.
Spec == Init /\ [][Next]_vars

NextColumn ==
    \/ ProcessRow(MaxColumnRows)
    \/ Classify
    \/ GetStatistics
    \/ Percentile
    \/ Discard

\* A file of the single column n, with more rows.
SpecColumn == InitColumn /\ [][NextColumn]_vars

NextPairs ==
    \/ ProcessRow(MaxPairRows)
    \/ Classify
    \/ CorrelateMetrics
    \/ FindOutliers
    \/ Discard

NextCategory ==
    \/ ProcessRow(MaxCategoryRows)
    \/ Classify
    \/ GetDistribution
    \/ Discard

\* A file of the single categorical column c, some of whose cells are blank.
SpecCategory == InitCategory /\ [][NextCategory]_vars

NextFilter ==
    \/ ProcessRow(MaxFilterRows)
    \/ Classify
    \/ FilterByCondition
    \/ Discard

\* A file of the single metric column m, one of whose values is nan.
SpecFilter == InitFilter /\ [][NextFilter]_vars

\* A file of the two metric columns x and y, whose values do not all stay exact in
\* binary floating point.
SpecPairs == InitPairs /\ [][NextPairs]_vars

(***************************************************************************)
(* DataLoader.load of a local file, as one step.  A file is its header     *)
(* line, its data rows and the row, if any, that holds a byte which is not  *)
(* UTF-8 (bad, 0 for none); a reader decodes the file a chunk of lines at a *)
(* time, the header being line 0.                                           *)
(***************************************************************************)
Encodings == <<"utf-8", "latin-1", "iso-8859-1", "cp1252", "utf-16">>

\* The local files a caller names: sources that do not exist, and files of the columns
\* g and v or without a header line.
LocalFiles ==
    { [exists |-> FALSE, fieldnames |-> <<>>, rows |-> <<>>, bad |-> 0, chunk |-> 1],
      [exists |-> TRUE, fieldnames |-> <<>>, rows |-> <<>>, bad |-> 0, chunk |-> 1] }
    \cup { file \in [exists : {TRUE},
                     fieldnames : {<<"g", "v">>},
                     rows : UNION { [1..n -> FileRows(<<"g", "v">>)] : n \in 0..MaxFileRows },
                     bad : 0..MaxFileRows,
                     chunk : 1..2] :
             file.bad <= Len(file.rows) }

\* Reading the file in the encoding raises UnicodeDecodeError at its bad row.  Any
\* byte is a character of latin-1 and iso-8859-1.
Undecodable(file, encoding) ==
    CASE encoding = "utf-8" -> file.bad > 0
      [] encoding \in {"latin-1", "iso-8859-1"} -> FALSE
      [] encoding = "cp1252" -> file.bad > 0
      [] OTHER -> TRUE

\* The rows the reader yields before the chunk that holds the bad row is decoded.
RowsBeforeError(file) ==
    LET lines == (file.bad \div file.chunk) * file.chunk
    IN  IF lines > 0 THEN lines - 1 ELSE 0

\* _process_stream on a loader [headers, data, numeric_cols, categorical_cols]: the
\* loader it leaves and the exception it raises, "" for none.
process_stream(loader, file, encoding) ==
    LET failing == Undecodable(file, encoding)
        read == IF failing THEN SubSeq(file.rows, 1, RowsBeforeError(file)) ELSE file.rows
        appended == [loader EXCEPT !.headers = file.fieldnames, !.data = loader.data \o read]
    IN  IF failing /\ file.bad < file.chunk
        THEN [loader |-> loader, error |-> "UnicodeDecodeError"]
        ELSE IF file.fieldnames = <<>>
        THEN [loader |-> [loader EXCEPT !.headers = <<>>], error |-> "ValueError"]
        ELSE IF failing
        THEN [loader |-> appended, error |-> "UnicodeDecodeError"]
        ELSE [loader |-> [appended EXCEPT
                            !.numeric_cols =
                                SelectSeq(file.fieldnames,
                                          LAMBDA col : IsNumericColumn(file.rows, col)),
                            !.categorical_cols =
                                SelectSeq(file.fieldnames,
                                          LAMBDA col : ~IsNumericColumn(file.rows, col))],
              error |-> ""]

\* for encoding in encodings: from the i-th encoding on.
RECURSIVE TryEncodings(_, _, _)
TryEncodings(loader, file, i) ==
    IF i > Len(Encodings) THEN [loader |-> loader, error |-> "ValueError"]
    ELSE LET attempt == process_stream(loader, file, Encodings[i])
         IN  IF attempt.error = "UnicodeDecodeError"
             THEN TryEncodings(attempt.loader, file, i + 1)
             ELSE attempt

load_from_file(loader, file) ==
    IF ~file.exists THEN [loader |-> loader, error |-> "FileNotFoundError"]
    ELSE TryEncodings(loader, file, 1)

\* DataLoader.__init__
InitLoader ==
    /\ headers = <<>>
    /\ data = <<>>
    /\ numeric_cols = <<>>
    /\ categorical_cols = <<>>
    /\ components = NoComponents
    /\ pc = "new"
    /\ last = NoCall

\* loader.load(source) of a local file on a loader just made.
Load ==
    /\ pc = "new"
    /\ last = NoCall
    /\ \E file \in LocalFiles :
         LET result == load_from_file([headers |-> headers, data |-> data,
                                       numeric_cols |-> numeric_cols,
                                       categorical_cols |-> categorical_cols], file)
         IN  /\ headers' = result.loader.headers
             /\ data' = result.loader.data
             /\ numeric_cols' = result.loader.numeric_cols
             /\ categorical_cols' = result.loader.categorical_cols
             /\ components' = components
             /\ pc' = (IF result.error = "" THEN "ready" ELSE "failed")
             /\ last' = [op |-> "load", args |-> <<file>>,
                         out |-> IF result.error = "" THEN Return(<<>>)
                                 ELSE Raise(result.error)]

NextLoader ==
    \/ Load
    \/ Discard

\* A loader from its construction on, loading one local file.
SpecLoader == InitLoader /\ [][NextLoader]_vars

(***************************************************************************)
(* AnalysisEngine.  pc tells what self.loader is: None ("fresh"), a loader  *)
(* reading its file ("rows"), a loader whose load raised ("failed" before   *)
(* any load has succeeded, "stale" after one has) or a loaded one           *)
(* ("ready").  A loader whose load raised holds no headers and no records,  *)
(* so that analyze and analyze_focused, which pick their columns from the   *)
(* loader, then call neither the aggregator nor the analyzer.               *)
(* components is what self.aggregator and self.analyzer were built on: a   *)
(* load_csv that raises does so before it builds them, and leaves them be. *)
(***************************************************************************)
\* The files a caller names: one that does not exist, one without a header line and
\* one of the columns g and v.
Sources == {"missing.csv", "empty.csv", "data.csv"}

\* reader.fieldnames or []
Fieldnames(source) == IF source = "data.csv" THEN <<"g", "v">> ELSE <<>>

\* What DataLoader.load raises before it reads a record, "" when it goes on.
LoadError(source) ==
    IF source = "missing.csv" THEN "FileNotFoundError"
    ELSE IF Fieldnames(source) = <<>> THEN "ValueError"
    ELSE ""

InitEngine ==
    /\ headers = <<>>
    /\ data = <<>>
    /\ numeric_cols = <<>>
    /\ categorical_cols = <<>>
    /\ components = NoComponents
    /\ pc = "fresh"
    /\ last = NoCall

Idle == pc \in {"fresh", "failed", "stale", "ready"} /\ last = NoCall

\* self.loader = DataLoader(); self.loader.load(source), up to the first record.
LoadCsv ==
    /\ Idle
    /\ \E source \in Sources :
         /\ headers' = Fieldnames(source)
         /\ IF LoadError(source) # ""
            THEN /\ pc' = (IF pc \in {"fresh", "failed"} THEN "failed" ELSE "stale")
                 /\ last' = [op |-> "load_csv", args |-> <<source>>,
                             out |-> Raise(LoadError(source))]
            ELSE pc' = "rows" /\ last' = last
    /\ data' = <<>>
    /\ numeric_cols' = <<>>
    /\ categorical_cols' = <<>>
    /\ components' = components

\* The outcome of a try block that makes the calls in turn: the first exception is
\* raised again, and otherwise everything the calls returned is reported.
Report(calls) ==
    LET raising == { i \in 1..Len(calls) : ~Returned(calls[i]) }
    IN  IF raising # {} THEN Raise(calls[CHOOSE i \in raising : \A j \in raising : i <= j].raised)
        ELSE Return([i \in 1..Len(calls) |-> calls[i].value])

\* The calls a loop over a list of columns makes.
ForEach(cols, body(_)) == [i \in 1..Len(cols) |-> body(cols[i])]

analyze(loader, rows, hdrs, nums, cats) ==
    LET aggregation ==
            IF cats # <<>> /\ nums # <<>>
            THEN ForEach(SliceTo(cats, 2),
                         LAMBDA cat_col : aggregate(rows, hdrs, cat_col, nums[1], "sum"))
            ELSE <<>>
        multi_level ==
            IF Len(cats) >= 2 /\ nums # <<>>
            THEN <<group_by_multi(rows, hdrs, <<cats[1], cats[2]>>, nums[1], "sum")>>
            ELSE <<>>
        ranking ==
            IF cats # <<>> /\ nums # <<>>
            THEN <<rank(rows, cats[1], nums[1], 5, "sum")>>
            ELSE <<>>
        comparison ==
            IF cats # <<>> /\ Len(nums) > 1
            THEN <<compare_metrics(rows, cats[1], SliceTo(nums, 3))>>
            ELSE <<>>
        distribution ==
            ForEach(SliceTo(cats, 2), LAMBDA cat_col : get_distribution(rows, cat_col, 10))
    IN  IF ~loader THEN Raise("RuntimeError")
        ELSE Report(<<Return(<<Len(rows), Len(hdrs), nums, cats>>)>>
                      \o aggregation \o multi_level \o ranking \o comparison \o distribution)

\* col.lower() of the header names of the modelled files.
Lower(col) == IF col = "Category" THEN "category" ELSE col

\* One numeric column's lines of the category-wise breakdown: the totals from the
\* largest down, each with the number of records of its category.
Breakdown(rows, hdrs, category_col, num_col) ==
    LET results == aggregate(rows, hdrs, category_col, num_col, "sum")
        dist == get_distribution(rows, category_col, 10).value
        sorted_results == SliceTo(SortedDesc(results.value), 10)
    IN  IF ~Returned(results) THEN results
        ELSE Return([i \in 1..Len(sorted_results) |->
                       <<sorted_results[i][1], sorted_results[i][2],
                         DictGet(dist, sorted_results[i][1], 1)>>])

analyze_focused(loader, rows, hdrs, nums, cats) ==
    LET statistics ==
            ForEach(SliceTo(nums, 5), LAMBDA num_col : get_statistics(rows, num_col))
        named == SelectSeq(cats, LAMBDA col : Lower(col) = "category")
        category_col ==
            IF named # <<>> THEN <<named[1]>>
            ELSE IF cats # <<>> THEN <<cats[1]>>
            ELSE <<>>
        breakdown ==
            IF category_col # <<>> /\ nums # <<>>
            THEN ForEach(SliceTo(nums, 3),
                         LAMBDA num_col : Breakdown(rows, hdrs, category_col[1], num_col))
            ELSE <<>>
        primary ==
            IF cats # <<>> THEN <<get_distribution(rows, cats[1], 10)>> ELSE <<>>
        top_items ==
            IF cats # <<>> /\ nums # <<>>
            THEN <<rank(rows, cats[1], nums[1], 10, "sum")>>
            ELSE <<>>
        second ==
            IF Len(cats) >= 2 THEN <<get_distribution(rows, cats[2], 10)>> ELSE <<>>
    IN  IF ~loader THEN Raise("RuntimeError")
        ELSE Report(statistics \o breakdown \o primary \o top_items \o second)

EngineCall(op, out) ==
    /\ Idle
    /\ last' = [op |-> op, args |-> <<>>, out |-> out]
    /\ UNCHANGED <<headers, data, numeric_cols, categorical_cols, components, pc>>

Analyze ==
    EngineCall("analyze", analyze(pc # "fresh", data, headers, numeric_cols, categorical_cols))

AnalyzeFocused ==
    EngineCall("analyze_focused",
               analyze_focused(pc # "fresh", data, headers, numeric_cols, categorical_cols))

NextEngine ==
    \/ LoadCsv
    \/ ProcessRow(MaxRows)
    \/ Classify
    \/ Analyze
    \/ AnalyzeFocused
    \/ Discard

\* An engine from its construction on, loading files and running its two analyses.
SpecEngine == InitEngine /\ [][NextEngine]_vars

(***************************************************************************)
(* Properties.  The call held in last is the operation the property is     *)
(* about; what the specification expects is computed from data alone.      *)
(***************************************************************************)
Called(op) == last.op = op
KnownColumn(col) == col \in Range(headers)

\* The number of rows that satisfy P.
CountRows(P(_)) == Cardinality({ i \in 1..Len(data) : P(data[i]) })

Parses(row, col) == col \in DOMAIN row /\ row[col] \in NumericStrings

\* The sum of the entries of col that parse, over the whole dataset.
RECURSIVE SumOfValid(_, _)
SumOfValid(rows, col) ==
    IF rows = <<>> THEN Zero
    ELSE RatAdd(IF Parses(Head(rows), col) THEN Float(Head(rows)[col]) ELSE Zero,
                SumOfValid(Tail(rows), col))

C2_CountEqualsGroupAndCount ==
    (Called("aggregate") /\ Returned(last.out) /\ last.args[3] = "count")
        => DictEq(last.out.value, group_and_count(data, last.args[1]).value)

\* C2 amended: every key of aggregate(..., "count") is a key of groupAndCount, its count
\* is the number of records of the group whose valueCol parses, which is at most the
\* groupAndCount count; the two results are equal when every record's valueCol parses.
C2_CountOfParseable ==
    (Called("aggregate") /\ Returned(last.out) /\ last.args[3] = "count")
        => LET counts == last.out.value
               records == group_and_count(data, last.args[1]).value
               group_col == last.args[1]
               value_col == last.args[2]
           IN  /\ DictKeys(counts) \subseteq DictKeys(records)
               /\ \A k \in DictKeys(counts) :
                    /\ DictGet(counts, k, Zero) =
                         RatInt(CountRows(LAMBDA row : row[group_col] = k /\ Parses(row, value_col)))
                    /\ RatLE(DictGet(counts, k, Zero), DictGet(records, k, Zero))
               /\ (\A i \in 1..Len(data) : Parses(data[i], value_col)) => DictEq(counts, records)

\* C2 witness: a count over a dataset in which one record of a counted group has a
\* value that does not parse.
C2_Witness ==
    /\ Called("aggregate") /\ Returned(last.out) /\ last.args = <<"g", "v", "count">>
    /\ \E i, j \in 1..Len(data) :
         /\ data[i]["g"] = data[j]["g"]
         /\ Parses(data[i], "v") /\ ~Parses(data[j], "v")

IsPrefix(s, t) == Len(s) <= Len(t) /\ \A i \in 1..Len(s) : s[i] = t[i]

RankOfNextLimit ==
    rank(data, last.args[1], last.args[2], last.args[3] + 1, last.args[4]).value

\* C3 as stated: rank(col1, col2, limit=N) has at most N entries, each entry's value is
\* greater than the next entry's, and it is a prefix of rank(col1, col2, limit=N+1).
C3_RankStrictlyDescending ==
    Called("rank")
        => /\ Returned(last.out)
           /\ Len(last.out.value) <= last.args[3]
           /\ \A i \in 1..(Len(last.out.value) - 1) :
                RatLT(last.out.value[i + 1][2], last.out.value[i][2])
           /\ IsPrefix(last.out.value, RankOfNextLimit)

\* C3 amended: for N >= 0, rank(col1, col2, limit=N) has at most N entries, no entry's
\* value is less than the next entry's, and it is a prefix of rank(col1, col2, limit=N+1).
C3_RankNonIncreasing ==
    (Called("rank") /\ last.args[3] >= 0)
        => /\ Returned(last.out)
           /\ Len(last.out.value) <= last.args[3]
           /\ \A i \in 1..(Len(last.out.value) - 1) :
                RatLE(last.out.value[i + 1][2], last.out.value[i][2])
           /\ IsPrefix(last.out.value, RankOfNextLimit)

\* C3 witness: a ranking cut by its limit whose sort moved a later group to the front.
C3_Witness ==
    /\ Called("rank") /\ last.args[1] = "g" /\ last.args[2] = "v" /\ last.args[3] = 1
    /\ Len(last.out.value) = 1
    /\ Len(RankOfNextLimit) = 2
    /\ Parses(data[1], "v")
    /\ last.out.value[1][1] # data[1]["g"]

\* C4: aggregate raises ValueError exactly when groupCol or valueCol is no header, for
\* every operation name, and returns a result exactly when both are headers.
C4_AggregateInvalidColumns ==
    Called("aggregate")
        => /\ last.out.raised = "ValueError"
                <=> (~KnownColumn(last.args[1]) \/ ~KnownColumn(last.args[2]))
           /\ Returned(last.out) <=> (KnownColumn(last.args[1]) /\ KnownColumn(last.args[2]))

\* C4 witness: a known group column with an unknown value column raises, under an
\* operation name that is not in ops.
C4_Witness ==
    /\ Called("aggregate") /\ last.args = <<"g", "zz", "median">>
    /\ last.out.raised = "ValueError"
    /\ Len(data) > 0

\* The column names a call passes.
ColumnArgs(call) ==
    CASE call.op \in {"aggregate", "cross_tabulation", "rank", "correlate_metrics"} ->
            {call.args[1], call.args[2]}
      [] call.op = "group_by_multi" -> Range(call.args[1]) \cup {call.args[2]}
      [] call.op = "compare_metrics" -> {call.args[1]} \cup Range(call.args[2])
      [] call.op \in {"filter_by_condition", "group_and_count", "get_distribution",
                      "get_statistics", "find_outliers", "percentile"} -> {call.args[1]}
      [] OTHER -> {}

\* C5 as stated: every operation given a column name that is no header raises an
\* invalid-argument error instead of returning a result.
C5_UnknownColumnRaises ==
    (\E col \in ColumnArgs(last) : ~KnownColumn(col)) => last.out.raised = "ValueError"

\* The keys of a result of aggregate or groupAndCount, and the keys of both levels of a
\* crossTabulation.
GroupKeys(call) ==
    IF call.op = "cross_tabulation"
    THEN DictKeys(call.out.value)
           \cup UNION { DictKeys(call.out.value[i][2]) : i \in 1..Len(call.out.value) }
    ELSE DictKeys(call.out.value)

\* C6 as stated: in aggregate, groupAndCount and crossTabulation no result has the empty
\* string or a null as a group key, and groupAndCount counts the records whose group
\* value is absent or empty under "Unknown".
C6_EmptyGroupIsUnknown ==
    ((Called("aggregate") \/ Called("group_and_count") \/ Called("cross_tabulation"))
         /\ Returned(last.out) /\ \A col \in ColumnArgs(last) : KnownColumn(col))
        => /\ "" \notin GroupKeys(last)
           /\ NoneCell \notin GroupKeys(last)
           /\ Called("group_and_count") =>
                DictGet(last.out.value, "Unknown", Zero) =
                    RatInt(CountRows(LAMBDA row : row[last.args[1]] \in {"", NoneCell}))

\* The entries of col that parse, in dataset order.
RECURSIVE ValidValues(_, _)
ValidValues(rows, col) ==
    IF rows = <<>> THEN <<>>
    ELSE (IF Parses(Head(rows), col) THEN <<Float(Head(rows)[col])>> ELSE <<>>)
           \o ValidValues(Tail(rows), col)

\* x is the element of 0-based rank k of the values sorted ascending: it occurs among
\* them, at most k of them are below it and at least k + 1 are not above it.
IsOrderStatistic(values, k, x) ==
    /\ x \in Range(values)
    /\ Cardinality({ i \in 1..Len(values) : RatLT(values[i], x) }) <= k
    /\ Cardinality({ i \in 1..Len(values) : RatLE(values[i], x) }) >= k + 1

\* The nearest-rank percentile of the entries that parse: the element of 0-based rank
\* floor((p / 100) * (n - 1)), and 0 when none parses.
IsNearestRank(values, p, x) ==
    IF values = <<>> THEN x = Zero
    ELSE IsOrderStatistic(values, (p * (Len(values) - 1)) \div 100, x)

\* C7 as stated: percentile never raises on data that does not parse; it leaves those
\* cells out and returns the percentile of the rest, and 0 when no cell parses.
C7_PercentileSkipsInvalid ==
    (Called("percentile") /\ KnownColumn(last.args[1]))
        => /\ Returned(last.out)
           /\ IsNearestRank(ValidValues(data, last.args[1]), last.args[2], last.out.value)

\* C8 as stated: for 0 <= p <= 100 and a column with n >= 1 entries that parse,
\* percentile(col, p) is the element of 0-based index floor((p / 100) * (n - 1)) of
\* those entries sorted ascending.
C8_PercentileNearestRank ==
    (/\ Called("percentile") /\ KnownColumn(last.args[1])
     /\ last.args[2] \in 0..100
     /\ ValidValues(data, last.args[1]) # <<>>)
        => /\ Returned(last.out)
           /\ IsOrderStatistic(ValidValues(data, last.args[1]),
                               (last.args[2] * (Len(ValidValues(data, last.args[1])) - 1)) \div 100,
                               last.out.value)

ZeroStatistics ==
    [count |-> Zero, sum |-> Zero, avg |-> Zero, min |-> Zero, max |-> Zero,
     median |-> Zero, std_dev |-> Sqrt(Zero), range |-> Zero]

\* C9: getStatistics on a column none of whose entries parses returns count 0 and sum,
\* avg, min, max, median, std_dev and range 0, and does not raise.
C9_StatisticsOfNonNumericColumn ==
    (Called("get_statistics") /\ KnownColumn(last.args[1])
         /\ ValidValues(data, last.args[1]) = <<>>)
        => Returned(last.out) /\ last.out.value = ZeroStatistics

\* C9 witness: statistics of a column of several rows, textual, empty and missing.
C9_Witness ==
    /\ Called("get_statistics") /\ last.args = <<"n">>
    /\ Len(data) >= 3
    /\ { data[i]["n"] : i \in 1..Len(data) } = {"x", "", NoneCell}
    /\ last.out.value.count = Zero

\* The rows in the order perm, a permutation of their indices.
Reordered(rows, perm) == [i \in 1..Len(rows) |-> rows[perm[i]]]

Units(r) == r.sign * NatToInt(r.units)

\* The labels the rounded coefficient r determines.
StrengthOfRounded(r) ==
    IF Abs(Units(r)) >= 9000 THEN "perfect"
    ELSE IF Abs(Units(r)) >= 7000 THEN "strong"
    ELSE IF Abs(Units(r)) >= 5000 THEN "moderate"
    ELSE IF Abs(Units(r)) > 0 THEN "weak"
    ELSE "none"

DirectionOfRounded(r) ==
    IF Units(r) > 0 THEN "positive" ELSE IF Units(r) < 0 THEN "negative" ELSE "none"

\* C11 as stated: the strength and direction labels that correlate_metrics returns are
\* the ones its returned, 4-decimal rounded coefficient determines; a returned
\* coefficient of 0 carries strength "none" and direction "none".
C11_LabelsFollowRoundedCoefficient ==
    (Called("correlate_metrics") /\ Returned(last.out))
        => /\ last.out.value.strength = StrengthOfRounded(last.out.value.correlation)
           /\ last.out.value.direction = DirectionOfRounded(last.out.value.correlation)

\* The valid pairs of the call held in last.
PairsOfCall == ValidPairs(data, last.args[1], last.args[2])

\* Column k of the pairs holds one value only.
ConstantOver(pairs, k) == \A i, j \in 1..Len(pairs) : pairs[i][k] = pairs[j][k]

\* C12 as stated: correlate_metrics returns coefficient 0 with both labels "none" when
\* fewer than 2 records have both columns parseable, and when one of the columns is
\* constant over the valid pairs.
C12_DegenerateCorrelationIsNone ==
    (/\ Called("correlate_metrics")
     /\ \/ Len(PairsOfCall) < 2
        \/ ConstantOver(PairsOfCall, 1)
        \/ ConstantOver(PairsOfCall, 2))
        => last.out = Return(NoCorrelation)

\* The pairs lie on one line: every three of them span no area, in exact arithmetic.
Collinear(pairs) ==
    \A i, j, k \in 1..Len(pairs) :
        DySign(DySub(DyMul(DySub(pairs[j][1], pairs[i][1]), DySub(pairs[k][2], pairs[i][2])),
                     DyMul(DySub(pairs[k][1], pairs[i][1]), DySub(pairs[j][2], pairs[i][2]))))
            = 0

\* The sign of the slope of the line through the pairs, 0 without two distinct x.
SlopeSign(pairs) ==
    LET rising == { <<i, j>> \in (1..Len(pairs)) \X (1..Len(pairs)) :
                      DyLT(pairs[i][1], pairs[j][1]) }
    IN  IF rising = {} THEN 0
        ELSE LET ij == CHOOSE e \in rising : TRUE
             IN  DySign(DySub(pairs[ij[2]][2], pairs[ij[1]][2]))

\* C13 as stated: for valid pairs exactly on a line y = a*x + b with two distinct x,
\* correlate_metrics returns a positive coefficient, "positive" and "perfect" when
\* a > 0, and a negative coefficient, "negative" and "perfect" when a < 0.
C13_PointsOnALineArePerfect ==
    (/\ Called("correlate_metrics")
     /\ Collinear(PairsOfCall)
     /\ SlopeSign(PairsOfCall) # 0)
        => /\ Returned(last.out)
           /\ last.out.value.strength = "perfect"
           /\ Units(last.out.value.correlation) * SlopeSign(PairsOfCall) > 0
           /\ last.out.value.direction
                = (IF SlopeSign(PairsOfCall) > 0 THEN "positive" ELSE "negative")

\* The sum of the values, exactly.
RECURSIVE DySum(_)
DySum(values) ==
    IF values = <<>> THEN DyZero ELSE DyAdd(DySum(Tail(values)), Head(values))

\* |x - mean| > threshold * s for the sample standard deviation s and threshold >= 0,
\* in exact arithmetic: with n values of sum S and d(v) = n * v - S, that is
\* (n - 1) * d(x)^2 > threshold^2 * (d(v1)^2 + ... + d(vn)^2).
IsOutlier(values, threshold, x) ==
    LET n == DyInt(Len(values))
        d(v) == DySub(DyMul(n, v), DySum(values))
        squares == [i \in 1..Len(values) |-> DyMul(d(values[i]), d(values[i]))]
    IN  DyLT(DyMul(DyMul(threshold, threshold), DySum(squares)),
             DyMul(DyInt(Len(values) - 1), DyMul(d(x), d(x))))

\* C14 as stated: find_outliers returns the empty list when fewer than 2 values parse,
\* and otherwise exactly the parseable values x, in dataset order, with
\* |x - mean| > threshold * s for the sample standard deviation s.
C14_OutliersBeyondThreshold ==
    Called("find_outliers")
        => LET values == FloatValues(data, last.args[1])
               beyond(x) == IsOutlier(values, last.args[2], x)
           IN  last.out = Return(IF Len(values) < 2 THEN <<>> ELSE SelectSeq(values, beyond))

\* C15: no Aggregator or Analyzer operation changes the dataset; whatever is called
\* once the dataset is loaded, and whether it returns or raises, the records, the
\* headers and the numeric-column list stay as they are.
C15_OperationsLeaveDataset ==
    [][pc = "ready" => (data' = data /\ headers' = headers /\ numeric_cols' = numeric_cols)]_vars

\* C15 witness: over two records, one call has returned a part of them and another
\* has raised.
C15_Witness ==
    /\ Len(data) = 2
    /\ \/ Called("filter_by_condition") /\ Returned(last.out) /\ Len(last.out.value) = 1
       \/ Called("percentile") /\ ~Returned(last.out)

\* aggregate over the columns and operation of the rank call held in last.
AggregateOfRank == aggregate(data, headers, last.args[1], last.args[2], last.args[4])

\* C19 as stated: for every op of sum, avg, min, max and count and every limit that is
\* at least the number of groups, the (key, value) pairs rank returns are the items of
\* aggregate over the same columns and op.
C19_RankReducesAsAggregate ==
    (/\ Called("rank")
     /\ KnownColumn(last.args[1]) /\ KnownColumn(last.args[2])
     /\ last.args[4] \in AggregateOps
     /\ last.args[3] >= Len(AggregateOfRank.value))
        => /\ Returned(last.out)
           /\ Range(last.out.value) = Range(AggregateOfRank.value)

\* The first record of group key whose value parses.
FirstEncounter(key, rank_col, value_col) ==
    CHOOSE i \in 1..Len(data) :
        /\ RowGet(data[i], rank_col, "Unknown") = key /\ Parses(data[i], value_col)
        /\ \A j \in 1..(i - 1) :
             ~(RowGet(data[j], rank_col, "Unknown") = key /\ Parses(data[j], value_col))

\* C20: among the groups of equal aggregated value, rank lists the groups in the order
\* in which their keys are first encountered in the dataset, for every op and limit.
C20_RankStable ==
    Called("rank")
        => /\ Returned(last.out)
           /\ \A i, j \in 1..Len(last.out.value) :
                (i < j /\ last.out.value[i][2] = last.out.value[j][2])
                    => FirstEncounter(last.out.value[i][1], last.args[1], last.args[2])
                         < FirstEncounter(last.out.value[j][1], last.args[1], last.args[2])

\* C20 witness: two groups tie, and the ranking lists the one met first ahead of the
\* other although its key sorts after it.
C20_Witness ==
    /\ Called("rank") /\ last.args[1] = "g" /\ last.args[2] = "v"
    /\ Len(last.out.value) = 2
    /\ last.out.value[1][2] = last.out.value[2][2]
    /\ last.out.value[1][1] = "B" /\ last.out.value[2][1] = "A"
    /\ data[1]["g"] = "B"

\* No load_csv call of the engine has completed successfully.
NeverLoaded == pc \in {"fresh", "failed"}

\* C17 as stated: analyze and analyze_focused raise RuntimeError in every engine state
\* in which no load_csv call has completed successfully: a freshly constructed engine,
\* and an engine whose only load_csv calls failed.
C17_AnalyzeNeedsLoadedData ==
    ((Called("analyze") \/ Called("analyze_focused")) /\ NeverLoaded)
        => last.out = Raise("RuntimeError")

\* The number of cells of col that are neither empty nor missing.
NonEmptyCount(col) == CountRows(LAMBDA row : col \in DOMAIN row /\ NonBlank(row[col]))

\* The number of cells of col that parse as a number.
ParsingCount(col) == CountRows(LAMBDA row : Parses(row, col))

\* col is in exactly one of the two lists of the classification.
ClassifiedOnce(col) ==
    (col \in Range(numeric_cols)) # (col \in Range(categorical_cols))

PathOf(row, group_cols) == [i \in 1..Len(group_cols) |-> RowGet(row, group_cols[i], "Unknown")]

\* The paths to the leaves of a mapping nested depth levels deep.
RECURSIVE LeafPaths(_, _)
LeafPaths(nested, depth) ==
    IF depth = 1 THEN { <<nested[i][1]>> : i \in 1..Len(nested) }
    ELSE UNION { { <<nested[i][1]>> \o path : path \in LeafPaths(nested[i][2], depth - 1) } :
                 i \in 1..Len(nested) }

\* The entry of a nested mapping at a path.
RECURSIVE LeafAt(_, _)
LeafAt(nested, path) ==
    IF path = <<>> THEN nested ELSE LeafAt(DictGet(nested, Head(path), <<>>), Tail(path))

C22_CompareMetricsAverages ==
    Called("compare_metrics")
        => LET group_col == last.args[1]
               metric_cols == last.args[2]
               of(k) == SelectSeq(data, LAMBDA row : RowGet(row, group_col, "Unknown") = k)
               parsing(k, m) == Len(SelectSeq(of(k), LAMBDA row : Parses(row, m)))
           IN  /\ Returned(last.out)
               /\ DictKeys(last.out.value)
                    = { RowGet(data[i], group_col, "Unknown") : i \in 1..Len(data) }
               /\ \A k \in DictKeys(last.out.value) :
                    LET metrics == DictGet(last.out.value, k, <<>>)
                    IN  /\ DictKeys(metrics) = Range(metric_cols)
                        /\ \A m \in Range(metric_cols) :
                             DictGet(metrics, m, <<>>)
                               = (IF parsing(k, m) = 0 THEN Zero
                                  ELSE RatDivInt(SumOfValid(of(k), m), parsing(k, m)))

\* C22 witness: two metrics over a group of two records; every record lacks a
\* parseable value of the second metric and still counts for the average of the first.
C22_Witness ==
    /\ Called("compare_metrics") /\ last.args = <<"g", <<"v", "g">>>>
    /\ Len(data) = 2 /\ data[1]["g"] = data[2]["g"]
    /\ data[1]["v"] = "1" /\ data[2]["v"] = "2"
    /\ DictGet(last.out.value, data[1]["g"], <<>>) = <<<<"v", <<3, 2>>>>, <<"g", Zero>>>>

\* The number of records whose entry of the column of the call held in last is val.
CountOfValue(val) == CountRows(LAMBDA row : RowGet(row, last.args[1], "Unknown") = val)

\* The first record whose entry of the column is val.
FirstOfValue(val) ==
    CHOOSE i \in 1..Len(data) :
        /\ RowGet(data[i], last.args[1], "Unknown") = val
        /\ \A j \in 1..(i - 1) : RowGet(data[j], last.args[1], "Unknown") # val

\* C23: get_distribution(col, topN) holds no empty or whitespace-only key; each count
\* is the number of records whose col entry is the key; the entries are in order of
\* non-increasing count, ties in the order of first encounter; there are at most topN
\* of them (topN of them when that many values exist) and no value left out has a
\* greater count than one returned.
C23_Distribution ==
    Called("get_distribution")
        => LET out == last.out.value
               values == { val \in { RowGet(data[i], last.args[1], "Unknown") : i \in 1..Len(data) } :
                             val # NoneCell /\ val # "" /\ val # " " }
               keys == { out[i][1] : i \in 1..Len(out) }
           IN  /\ Returned(last.out)
               /\ keys \subseteq values
               /\ Cardinality(keys) = Len(out)
               /\ \A i \in 1..Len(out) : out[i][2] = RatInt(CountOfValue(out[i][1]))
               /\ \A i, j \in 1..Len(out) :
                    i < j => \/ CountOfValue(out[i][1]) > CountOfValue(out[j][1])
                             \/ /\ CountOfValue(out[i][1]) = CountOfValue(out[j][1])
                                /\ FirstOfValue(out[i][1]) < FirstOfValue(out[j][1])
               /\ Len(out) <= last.args[2]
               /\ Len(out) = last.args[2] \/ keys = values
               /\ \A val \in values \ keys :
                    \A k \in keys : CountOfValue(val) <= CountOfValue(k)

\* C23 witness: of four records one is blank and the value met second is the more
\* frequent; the top 1 is that value alone, and the value met first is left out.
C23_Witness ==
    /\ Called("get_distribution") /\ last.args = <<"c", 1>>
    /\ Len(data) = 4
    /\ data[1]["c"] = "A" /\ data[2]["c"] = "B" /\ data[3]["c"] = "B" /\ data[4]["c"] = " "
    /\ last.out.value = <<<<"B", RatInt(2)>>>>

\* The value x = <<a, b>> stands in the relation operator to y = <<c, d>>, an operator
\* that is none of the six reading as ==; nan stands in no relation but != to anything.
Satisfies(operator, x, y) ==
    LET difference == x[1] * y[2] - y[1] * x[2]
    IN  IF x[2] = 0 \/ y[2] = 0 THEN operator = "!="
        ELSE IF operator = ">" THEN difference > 0
        ELSE IF operator = "<" THEN difference < 0
        ELSE IF operator = ">=" THEN difference >= 0
        ELSE IF operator = "<=" THEN difference <= 0
        ELSE IF operator = "!=" THEN difference # 0
        ELSE difference = 0

\* The number of times record r occurs in the sequence of records.
Occurrences(records, r) == Cardinality({ i \in 1..Len(records) : records[i] = r })

\* The result of the filter_by_condition call held in last, had its operator been other.
FilterWith(other) == filter_by_condition(data, last.args[1], other, last.args[3]).value

\* filter_by_condition returns, in dataset order, exactly the records whose col entry
\* parses and satisfies the comparison, without an error.
FilterSelects ==
    last.out = Return(SelectSeq(data, LAMBDA row :
                   /\ Parses(row, last.args[1])
                   /\ Satisfies(last.args[2], Float(row[last.args[1]]), last.args[3])))

\* C24 as stated: filter_by_condition returns, in dataset order, exactly the records
\* whose col entry parses and satisfies the comparison, an unknown operator reading as
\* ==; and for any threshold every record with a parseable entry is in exactly one of
\* the results for ">" and "<=", which hold no other record.
C24_FilterPartitions ==
    Called("filter_by_condition")
        => /\ FilterSelects
           /\ last.args[2] = ">"
                => \A r \in Range(data) :
                     Occurrences(last.out.value, r) + Occurrences(FilterWith("<="), r)
                       = (IF Parses(r, last.args[1]) THEN Occurrences(data, r) ELSE 0)

\* C24 amended: the same selection; and for a threshold that is not nan, every record
\* whose entry parses to a number other than nan is in exactly one of the results for
\* ">" and "<=", which hold no other record.
C24_FilterPartitionsNumbers ==
    Called("filter_by_condition")
        => /\ FilterSelects
           /\ (last.args[2] = ">" /\ last.args[3] # NaN)
                => \A r \in Range(data) :
                     Occurrences(last.out.value, r) + Occurrences(FilterWith("<="), r)
                       = (IF Parses(r, last.args[1]) /\ r[last.args[1]] # "nan"
                          THEN Occurrences(data, r) ELSE 0)

\* C24 witness: ">" over a value above the threshold, one not above it, a nan and a
\* text; the first is returned, "<=" returns the second, and neither holds the nan.
C24_Witness ==
    /\ Called("filter_by_condition") /\ last.args = <<"m", ">", <<1, 1>>>>
    /\ Len(data) = 3 /\ data[1]["m"] = "2" /\ data[2]["m"] = "nan" /\ data[3]["m"] = "1"
    /\ last.out.value = <<data[1]>>
    /\ FilterWith("<=") = <<data[3]>>

\* C25 as stated: after load of a local file returns, loader.data holds each data row
\* of the file once, in file order, also when an earlier encoding attempt failed
\* partway through the file; and the classification counts each row once.
C25_RowsLoadedOnce ==
    (Called("load") /\ Returned(last.out))
        => LET file == last.args[1]
               parsing(col) == Cardinality({ i \in 1..Len(file.rows) : Parses(file.rows[i], col) })
           IN  /\ data = file.rows
               /\ headers = file.fieldnames
               /\ \A col \in Range(headers) :
                    col \in Range(numeric_cols)
                      <=> (Len(file.rows) > 0 /\ 5 * parsing(col) >= 4 * Len(file.rows))

\* C26: between the calls of an engine, engine.data and engine.headers are the records
\* and the headers the aggregator and the analyzer hold, those of the most recent
\* load_csv that succeeded (none before one has), also after a load_csv that raised.
C26_EngineDatasetAgrees ==
    pc \in {"fresh", "failed", "stale", "ready"} =>
        /\ data = components.data
        /\ headers = components.headers
====
